---- MODULE Spec2Model ----
(***************************************************************************)
(* The trade-quoting state machine of hooks/routing/useRouterTrade.ts.     *)
(*                                                                         *)
(* The hook is a render function: its result is a function of its          *)
(* arguments (tradeType, amountSpecified, otherCurrency), of the ambient   *)
(* signals (window visibility, auto-router support, block freshness) and   *)
(* of the state kept by the hooks it calls (the debounced pair and its     *)
(* timer, the quote query's subscription, status and results).  Every      *)
(* action below is one external trigger followed by the re-render and the  *)
(* effects it causes, run to completion.                                   *)
(*                                                                         *)
(* Fixed arguments routerUrl and providerUrl are left out of QueryArgs:    *)
(* they never change in this model.                                        *)
(***************************************************************************)
EXTENDS Integers, FiniteSets, Sequences, TLC

VARIABLES
    network,             \* chain id of every currency of this run (fixed per behaviour)
    tradeType,           \* argument: "EXACT_INPUT" | "EXACT_OUTPUT" (fixed per behaviour)
    amountSpecified,     \* argument: CurrencyAmount | undefined
    otherCurrency,       \* argument: Currency | undefined
    debounced,           \* useDebounce state: <<amount, currency>>
    timer,               \* useDebounce pending timeout: its deadline, or NoTimer
    autoRouterSupported, \* useAutoRouterSupported()
    isWindowVisible,     \* useIsWindowVisible()
    staleBefore,         \* block oracle: blocks below this are no longer valid
    subscribedArgs,      \* quote query: the argument the hook is subscribed to
    status,              \* quote query: status of the subscribed argument
    data,                \* quote query: latest successful result shown by the hook
    currentData,         \* quote query: result of the subscribed argument
    inflight,            \* arguments of the requests issued and not yet answered
    polling,             \* quote query: the arguments whose polling loop is running
    now,                 \* wall clock in ms (advances only in SpecTimed)
    pollAge,             \* seconds since the polling loop started or last came due
                         \* (advances only in SpecPolling)
    prevStatus,          \* ghost: how the previous attempt for the subscribed
                         \* argument ended (recorded only in SpecPolling)
    lastInputAt,         \* ghost: arrival time of the pair waiting in the buffer, or -1
    scn,                 \* ghost: how many changes of the 0/50/120/260 scenario matched
    propagated           \* ghost: number of values the debounce buffer has emitted

vars == <<network, tradeType, amountSpecified, otherCurrency, debounced, timer,
          autoRouterSupported, isWindowVisible, staleBefore, subscribedArgs,
          status, data, currentData, inflight, polling, now, pollAge, prevStatus,
          lastInputAt, scn, propagated>>

hookVars == <<network, tradeType, amountSpecified, otherCurrency, debounced, timer,
              autoRouterSupported, isWindowVisible>>
queryVars == <<subscribedArgs, status, data, currentData, inflight, polling>>
pollVars == <<pollAge, prevStatus>>
ghostVars == <<lastInputAt, scn, propagated>>

-----------------------------------------------------------------------------
(* Bounds and value domains *)

MaxBlock == 1           \* block numbers of quotes range over 1..MaxBlock
MaxTime == 480          \* SpecTimed runs the clock up to this many ms

undefined == "undefined"

TradeTypes == {"EXACT_INPUT", "EXACT_OUTPUT"}

\* The currencies of a run all live on one chain, as the tokens offered by
\* the widget do: chain 1 is supported by the auto router, chain 56 is not.
Currencies == {"A", "B"}
Networks == {1, 56}
AUTO_ROUTER_SUPPORTED_CHAINS == {1}

\* currency?.chainId, 0 standing for undefined
chainIdOf(c) == IF c = undefined THEN 0 ELSE network

NoAmount == [currency |-> undefined, raw |-> 0]
\* The amounts a caller specifies in Spec: none, zero and two positive ones
Amounts == {NoAmount} \cup [currency : {"A"}, raw : {0, 1, 2}]
\* The inputs of SpecTimed: three positive amounts, with or without a currency
TimedAmounts == [currency : {"A"}, raw : {1, 2, 3}]
TimedCurrencies == {undefined, "B"}
OptCurrencies == {undefined} \cup Currencies

NoArgs == [tokenIn |-> undefined, tokenOut |-> undefined, amount |-> 0,
           tradeType |-> undefined]
skipToken == [tokenIn |-> undefined, tokenOut |-> undefined, amount |-> 0,
              tradeType |-> "skipToken"]

RouteKinds == {"ok", "empty", "malformed"}
QuoteAmounts == {95}

NoData == [originalArgs |-> skipToken, blockNumber |-> 0, route |-> undefined,
           quote |-> 0]
NoTrade == [inputCurrency |-> undefined, outputCurrency |-> undefined,
            tradeType |-> undefined, otherAmount |-> NoAmount,
            quoteArgs |-> skipToken]

NoTimer == -1

-----------------------------------------------------------------------------
(* The render function of useRouterTrade, top to bottom *)

\* line 45: the visibility / router-support gate in front of the amount
\* (variant: || in place of &&)
GateOpen_either(supported, visible) == supported \/ visible
GateOpen(supported, visible) == supported /\ visible

\* (variant: the debounced amount passed on whatever the gate says)
debouncedAmountSpecified_ungated(supported, visible, debouncedAmount) == debouncedAmount
debouncedAmountSpecified(supported, visible, debouncedAmount) ==
    IF GateOpen(supported, visible) THEN debouncedAmount ELSE NoAmount

\* lines 47-53: [currencyIn, currencyOut] from the trade type
\* (variant: the two branches exchanged)
currencyPair_swapped(tt, amount, debouncedOtherCurrency) ==
    IF tt = "EXACT_INPUT"
    THEN <<debouncedOtherCurrency, amount.currency>>
    ELSE <<amount.currency, debouncedOtherCurrency>>
currencyPair(tt, amount, debouncedOtherCurrency) ==
    IF tt = "EXACT_INPUT"
    THEN <<amount.currency, debouncedOtherCurrency>>
    ELSE <<debouncedOtherCurrency, amount.currency>>

\* lines 55-58: the hook throws when currencyIn's chain is not supported
\* (variant: the negation of includes() forgotten)
chainUnsupported_negated(currencyIn) ==
    LET chainId == chainIdOf(currencyIn)
    IN  chainId # 0 /\ chainId \in AUTO_ROUTER_SUPPORTED_CHAINS
chainUnsupported(currencyIn) ==
    LET chainId == chainIdOf(currencyIn)
    IN  chainId # 0 /\ chainId \notin AUTO_ROUTER_SUPPORTED_CHAINS

\* lines 64-71: the query argument builder
useRouterArguments(tokenIn, tokenOut, amount, tt) ==
    IF \/ tokenIn = undefined
       \/ tokenOut = undefined
       \/ amount = NoAmount
       \/ tokenIn = tokenOut
       \/ amount.raw = 0
    THEN NoArgs
    ELSE [tokenIn |-> tokenIn, tokenOut |-> tokenOut, amount |-> amount.raw,
          tradeType |-> tt]

\* line 73: queryArgs ?? skipToken
\* (variant: a default argument in place of skipToken)
quoteQueryArg_default(queryArgs) ==
    IF queryArgs = NoArgs
    THEN [tokenIn |-> "A", tokenOut |-> "B", amount |-> 1, tradeType |-> "EXACT_INPUT"]
    ELSE queryArgs
quoteQueryArg(queryArgs) ==
    IF queryArgs = NoArgs THEN skipToken ELSE queryArgs

\* line 78: the block-validity filter
useIsValidBlock(block, oldestValid) == block >= oldestValid

\* (variant: the quote passed on unfiltered)
quoteResultOf_unfiltered(d, oldestValid) == d
quoteResultOf(d, oldestValid) ==
    IF useIsValidBlock(d.blockNumber, oldestValid) THEN d ELSE NoData

\* lines 80-83: the routes of the filtered quote
computeRoutes(currencyIn, currencyOut, q) ==
    IF q = NoData \/ currencyIn = undefined \/ currencyOut = undefined
    THEN undefined
    ELSE q.route

\* line 121: the route-to-trade transform; Failed stands for a throw
Failed == [NoTrade EXCEPT !.tradeType = "failed"]
transformRoutesToTrade(route, tt, currencyIn, currencyOut, q, otherAmount) ==
    IF route = "malformed"
    THEN Failed
    ELSE [inputCurrency |-> currencyIn, outputCurrency |-> currencyOut,
          tradeType |-> tt, otherAmount |-> otherAmount,
          quoteArgs |-> q.originalArgs]

INVALID_TRADE == [error |-> FALSE, state |-> "INVALID", trade |-> NoTrade]
Thrown == [error |-> TRUE, state |-> undefined, trade |-> NoTrade]

\* lines 105-111
otherAmountOf(tt, currencyIn, currencyOut, q) ==
    IF q = NoData
    THEN NoAmount
    ELSE [currency |-> IF tt = "EXACT_INPUT" THEN currencyOut ELSE currencyIn,
          raw |-> q.quote]

\* lines 120-129, shared by the resolver and its variants
\* (variant: no catch, a failure of the transform reaches the caller)
ResolveTrade_uncaught(currencyIn, currencyOut, q, route, isSyncing, tt) ==
    LET trade == transformRoutesToTrade(route, tt, currencyIn, currencyOut, q,
                                        otherAmountOf(tt, currencyIn, currencyOut, q))
    IN  IF trade = Failed
        THEN Thrown
        ELSE [error |-> FALSE,
              state |-> IF isSyncing THEN "SYNCING" ELSE "VALID",
              trade |-> trade]
\* (variant: VALID returned without looking at isSyncing)
ResolveTrade_alwaysValid(currencyIn, currencyOut, q, route, isSyncing, tt) ==
    LET trade == transformRoutesToTrade(route, tt, currencyIn, currencyOut, q,
                                        otherAmountOf(tt, currencyIn, currencyOut, q))
    IN  IF trade = Failed
        THEN [error |-> FALSE, state |-> "INVALID", trade |-> NoTrade]
        ELSE [error |-> FALSE, state |-> "VALID", trade |-> trade]
ResolveTrade(currencyIn, currencyOut, q, route, isSyncing, tt) ==
    LET trade == transformRoutesToTrade(route, tt, currencyIn, currencyOut, q,
                                        otherAmountOf(tt, currencyIn, currencyOut, q))
    IN  IF trade = Failed
        THEN [error |-> FALSE, state |-> "INVALID", trade |-> NoTrade]
        ELSE [error |-> FALSE,
              state |-> IF isSyncing THEN "SYNCING" ELSE "VALID",
              trade |-> trade]

\* Variants of the resolver, each a slip the code could have made
\* rule 2 tested before rule 1
Resolve_fetchingFirst(currencyIn, currencyOut, isFetching, isError, q, route, queryArgs, isSyncing, tt) ==
    IF isFetching
    THEN [error |-> FALSE, state |-> "LOADING", trade |-> NoTrade]
    ELSE IF currencyIn = undefined \/ currencyOut = undefined
    THEN INVALID_TRADE
    ELSE IF \/ isError
            \/ otherAmountOf(tt, currencyIn, currencyOut, q) = NoAmount
            \/ route = undefined
            \/ route = "empty"
            \/ queryArgs = NoArgs
    THEN [error |-> FALSE, state |-> "NO_ROUTE_FOUND", trade |-> NoTrade]
    ELSE ResolveTrade(currencyIn, currencyOut, q, route, isSyncing, tt)

\* rule 4 tested before rule 2
Resolve_noRouteFirst(currencyIn, currencyOut, isFetching, isError, q, route, queryArgs, isSyncing, tt) ==
    IF currencyIn = undefined \/ currencyOut = undefined
    THEN INVALID_TRADE
    ELSE IF \/ isError
            \/ otherAmountOf(tt, currencyIn, currencyOut, q) = NoAmount
            \/ route = undefined
            \/ route = "empty"
            \/ queryArgs = NoArgs
    THEN [error |-> FALSE, state |-> "NO_ROUTE_FOUND", trade |-> NoTrade]
    ELSE IF isFetching
    THEN [error |-> FALSE, state |-> "LOADING", trade |-> NoTrade]
    ELSE ResolveTrade(currencyIn, currencyOut, q, route, isSyncing, tt)

\* rule 4 without its test of queryArgs
Resolve_argsUnchecked(currencyIn, currencyOut, isFetching, isError, q, route, queryArgs, isSyncing, tt) ==
    IF currencyIn = undefined \/ currencyOut = undefined
    THEN INVALID_TRADE
    ELSE IF isFetching
    THEN [error |-> FALSE, state |-> "LOADING", trade |-> NoTrade]
    ELSE IF \/ isError
            \/ otherAmountOf(tt, currencyIn, currencyOut, q) = NoAmount
            \/ route = undefined
            \/ route = "empty"
    THEN [error |-> FALSE, state |-> "NO_ROUTE_FOUND", trade |-> NoTrade]
    ELSE ResolveTrade(currencyIn, currencyOut, q, route, isSyncing, tt)

\* rule 2 only for a first load: isLoading && !quoteResult
Resolve_loadingOnlyWithoutQuote(currencyIn, currencyOut, isFetching, isError, q, route, queryArgs, isSyncing, tt) ==
    IF currencyIn = undefined \/ currencyOut = undefined
    THEN INVALID_TRADE
    ELSE IF isFetching /\ q = NoData
    THEN [error |-> FALSE, state |-> "LOADING", trade |-> NoTrade]
    ELSE IF \/ isError
            \/ otherAmountOf(tt, currencyIn, currencyOut, q) = NoAmount
            \/ route = undefined
            \/ route = "empty"
            \/ queryArgs = NoArgs
    THEN [error |-> FALSE, state |-> "NO_ROUTE_FOUND", trade |-> NoTrade]
    ELSE ResolveTrade(currencyIn, currencyOut, q, route, isSyncing, tt)

\* rule 4 without its test of isError
Resolve_errorUnchecked(currencyIn, currencyOut, isFetching, isError, q, route, queryArgs, isSyncing, tt) ==
    IF currencyIn = undefined \/ currencyOut = undefined
    THEN INVALID_TRADE
    ELSE IF isFetching
    THEN [error |-> FALSE, state |-> "LOADING", trade |-> NoTrade]
    ELSE IF \/ otherAmountOf(tt, currencyIn, currencyOut, q) = NoAmount
            \/ route = undefined
            \/ route = "empty"
            \/ queryArgs = NoArgs
    THEN [error |-> FALSE, state |-> "NO_ROUTE_FOUND", trade |-> NoTrade]
    ELSE ResolveTrade(currencyIn, currencyOut, q, route, isSyncing, tt)

\* rule 2 returning the trade of the quote at hand along with LOADING
Resolve_loadingKeepsTrade(currencyIn, currencyOut, isFetching, isError, q, route, queryArgs, isSyncing, tt) ==
    IF currencyIn = undefined \/ currencyOut = undefined
    THEN INVALID_TRADE
    ELSE IF isFetching
    THEN [error |-> FALSE, state |-> "LOADING",
          trade |-> IF q = NoData \/ route = undefined
                    THEN NoTrade
                    ELSE ResolveTrade(currencyIn, currencyOut, q, route, isSyncing, tt).trade]
    ELSE IF \/ isError
            \/ otherAmountOf(tt, currencyIn, currencyOut, q) = NoAmount
            \/ route = undefined
            \/ route = "empty"
            \/ queryArgs = NoArgs
    THEN [error |-> FALSE, state |-> "NO_ROUTE_FOUND", trade |-> NoTrade]
    ELSE ResolveTrade(currencyIn, currencyOut, q, route, isSyncing, tt)

\* lines 90-129: the trade state resolver
Resolve(currencyIn, currencyOut, isFetching, isError, q, route, queryArgs, isSyncing, tt) ==
    IF currencyIn = undefined \/ currencyOut = undefined
    THEN INVALID_TRADE
    ELSE IF isFetching
    THEN [error |-> FALSE, state |-> "LOADING", trade |-> NoTrade]
    ELSE IF \/ isError
            \/ otherAmountOf(tt, currencyIn, currencyOut, q) = NoAmount
            \/ route = undefined
            \/ route = "empty"
            \/ queryArgs = NoArgs
    THEN [error |-> FALSE, state |-> "NO_ROUTE_FOUND", trade |-> NoTrade]
    ELSE ResolveTrade(currencyIn, currencyOut, q, route, isSyncing, tt)

\* lines 45-71 on given hook state: the values the render computes
gatedAmount(supported, visible, deb) == debouncedAmountSpecified(supported, visible, deb[1])
currencyInOf(tt, supported, visible, deb) ==
    currencyPair(tt, gatedAmount(supported, visible, deb), deb[2])[1]
currencyOutOf(tt, supported, visible, deb) ==
    currencyPair(tt, gatedAmount(supported, visible, deb), deb[2])[2]
throwsOn(tt, supported, visible, deb) ==
    chainUnsupported(currencyInOf(tt, supported, visible, deb))
queryArgsOn(tt, supported, visible, deb) ==
    useRouterArguments(currencyInOf(tt, supported, visible, deb),
                       currencyOutOf(tt, supported, visible, deb),
                       gatedAmount(supported, visible, deb), tt)

\* The same values in the current state
currencyIn == currencyInOf(tradeType, autoRouterSupported, isWindowVisible, debounced)
currencyOut == currencyOutOf(tradeType, autoRouterSupported, isWindowVisible, debounced)
amountPassed == gatedAmount(autoRouterSupported, isWindowVisible, debounced)
throws == throwsOn(tradeType, autoRouterSupported, isWindowVisible, debounced)
queryArgs == queryArgsOn(tradeType, autoRouterSupported, isWindowVisible, debounced)
isFetching == status = "pending"
isError == status = "rejected"
quoteResult == quoteResultOf(data, staleBefore)
route == computeRoutes(currencyIn, currencyOut, quoteResult)
isSyncing == currentData # data
otherAmount == otherAmountOf(tradeType, currencyIn, currencyOut, quoteResult)
\* line 121: what the transform makes of the route in the current state
trade == transformRoutesToTrade(route, tradeType, currencyIn, currencyOut, quoteResult,
                                otherAmount)

\* lines 28-142: what the hook returns (or that it throws) in the current state
useRouterTrade ==
    IF throws
    THEN Thrown
    ELSE Resolve(currencyIn, currencyOut, isFetching, isError, quoteResult, route,
                 queryArgs, isSyncing, tradeType)

-----------------------------------------------------------------------------
(* The hooks the render calls: useDebounce and useGetQuoteQuery *)

\* line 43: the debounce delay in ms (variant: half of it)
DebounceDelay_short == 200 \div 2
DebounceDelay == 200

\* SpecTimed advances the clock in steps of a twentieth of the delay
TickMs == DebounceDelay \div 20

\* line 74: the polling interval in seconds; 0 stands for no polling
\* (variant: the pollingInterval option left out, which is an interval of 0)
PollingInterval_off == 0 * 15
PollingInterval == 15

\* SpecPolling advances the polling clock in steps of a third of the interval
PollTickS == PollingInterval \div 3

\* Effect of useGetQuoteQuery after a render with argument arg: a changed
\* argument drops the result of the old one, ends its polling loop and,
\* unless it is skipToken, issues a request at once and starts a polling
\* loop of its own.  The latest successful result stays in data.
\* (variant: the polling loop of the old argument is left running)
Subscribe_pollingNotCancelled(arg) ==
    IF arg = subscribedArgs
    THEN UNCHANGED queryVars
    ELSE /\ subscribedArgs' = arg
         /\ currentData' = NoData
         /\ data' = data
         /\ status' = IF arg = skipToken THEN "uninitialized" ELSE "pending"
         /\ inflight' = IF arg = skipToken THEN inflight ELSE inflight \cup {arg}
         /\ polling' = IF arg = skipToken THEN polling ELSE polling \cup {arg}
Subscribe(arg) ==
    IF arg = subscribedArgs
    THEN UNCHANGED queryVars
    ELSE /\ subscribedArgs' = arg
         /\ currentData' = NoData
         /\ data' = data
         /\ status' = IF arg = skipToken THEN "uninitialized" ELSE "pending"
         /\ inflight' = IF arg = skipToken THEN inflight ELSE inflight \cup {arg}
         /\ polling' = IF arg = skipToken THEN {} ELSE {arg}

\* The render and its effects on hook state (tt, supported, visible, deb):
\* a render that throws unmounts the hook, which ends its subscription.
AfterRender(tt, supported, visible, deb) ==
    Subscribe(IF throwsOn(tt, supported, visible, deb)
              THEN skipToken
              ELSE quoteQueryArg(queryArgsOn(tt, supported, visible, deb)))

InitialArg(tt, supported, visible, deb) ==
    IF throwsOn(tt, supported, visible, deb)
    THEN skipToken
    ELSE quoteQueryArg(queryArgsOn(tt, supported, visible, deb))

Init ==
    /\ network \in Networks
    /\ tradeType \in TradeTypes
    /\ amountSpecified \in Amounts
    /\ otherCurrency \in OptCurrencies
    /\ debounced = <<amountSpecified, otherCurrency>>
    /\ timer = DebounceDelay
    /\ autoRouterSupported \in BOOLEAN
    /\ isWindowVisible \in BOOLEAN
    /\ staleBefore = 1
    /\ subscribedArgs = InitialArg(tradeType, autoRouterSupported, isWindowVisible, debounced)
    /\ status = IF subscribedArgs = skipToken THEN "uninitialized" ELSE "pending"
    /\ data = NoData
    /\ currentData = NoData
    /\ inflight = IF subscribedArgs = skipToken THEN {} ELSE {subscribedArgs}
    /\ polling = inflight
    /\ now = 0
    /\ pollAge = 0
    /\ prevStatus = "uninitialized"
    /\ lastInputAt = 0
    /\ scn = 0
    /\ propagated = 0

\* A new (amountSpecified, otherCurrency) pair reaches the hook: useDebounce
\* restarts its timer; the debounced pair, and so the query, do not change.
ChangeInput(a, c) ==
    /\ ~throws
    /\ <<a, c>> # <<amountSpecified, otherCurrency>>
    /\ amountSpecified' = a
    /\ otherCurrency' = c
    /\ timer' = now + DebounceDelay
    /\ UNCHANGED <<network, tradeType, debounced, autoRouterSupported, isWindowVisible,
                   staleBefore, queryVars>>

\* The debounce timer fires: the latest pair becomes the debounced pair
DebounceFire ==
    /\ ~throws
    /\ timer # NoTimer
    /\ debounced' = <<amountSpecified, otherCurrency>>
    /\ timer' = NoTimer
    /\ AfterRender(tradeType, autoRouterSupported, isWindowVisible, debounced')
    /\ UNCHANGED <<network, tradeType, amountSpecified, otherCurrency, autoRouterSupported,
                   isWindowVisible, staleBefore>>

-----------------------------------------------------------------------------
(* Actions of Spec: time is abstract, a pending timer may fire at any step *)

SetAmountSpecified ==
    \E a \in Amounts :
        ChangeInput(a, otherCurrency) /\ UNCHANGED <<now, pollVars, ghostVars>>

SetOtherCurrency ==
    \E c \in OptCurrencies :
        ChangeInput(amountSpecified, c) /\ UNCHANGED <<now, pollVars, ghostVars>>

DebounceElapsed == DebounceFire /\ UNCHANGED <<now, pollVars, ghostVars>>

SetWindowVisible ==
    /\ ~throws
    /\ isWindowVisible' = ~isWindowVisible
    /\ AfterRender(tradeType, autoRouterSupported, isWindowVisible', debounced)
    /\ UNCHANGED <<network, tradeType, amountSpecified, otherCurrency, debounced, timer,
                   autoRouterSupported, staleBefore, now, pollVars, ghostVars>>

SetAutoRouterSupported ==
    /\ ~throws
    /\ autoRouterSupported' = ~autoRouterSupported
    /\ AfterRender(tradeType, autoRouterSupported', isWindowVisible, debounced)
    /\ UNCHANGED <<network, tradeType, amountSpecified, otherCurrency, debounced, timer,
                   isWindowVisible, staleBefore, now, pollVars, ghostVars>>

\* The block oracle moves on: the oldest block it accepts rises
BlockAdvance ==
    /\ ~throws
    /\ staleBefore <= MaxBlock
    /\ staleBefore' = staleBefore + 1
    /\ UNCHANGED <<hookVars, queryVars, now, pollVars, ghostVars>>

\* The polling loop of argument k comes due: k is fetched again, unless a
\* request for it is still unanswered
PollKey(k) ==
    /\ ~throws
    /\ IF k = subscribedArgs
       THEN /\ status # "pending"
            /\ status' = "pending"
       ELSE /\ k \notin inflight
            /\ status' = status
    /\ inflight' = inflight \cup {k}
    /\ UNCHANGED <<subscribedArgs, data, currentData, polling, hookVars, staleBefore>>

\* The 15 s polling interval elapses, or the window regains focus
\* (lines 74-75): the polled argument is fetched again
Poll ==
    \E k \in polling :
        PollKey(k) /\ UNCHANGED <<now, pollVars, ghostVars>>

\* The quoting service answers the request of the subscribed argument
FetchFulfilled ==
    \E b \in 1..MaxBlock, r \in RouteKinds, q \in QuoteAmounts :
        /\ subscribedArgs \in inflight
        /\ inflight' = inflight \ {subscribedArgs}
        /\ status' = "fulfilled"
        /\ data' = [originalArgs |-> subscribedArgs, blockNumber |-> b,
                    route |-> r, quote |-> q]
        /\ currentData' = data'
        /\ UNCHANGED <<subscribedArgs, polling, hookVars, staleBefore, now, pollVars, ghostVars>>

FetchRejected ==
    /\ subscribedArgs \in inflight
    /\ inflight' = inflight \ {subscribedArgs}
    /\ status' = "rejected"
    /\ UNCHANGED <<subscribedArgs, data, currentData, polling, hookVars, staleBefore, now,
                   pollVars, ghostVars>>

\* The service answers (or fails) a request whose argument is no longer the
\* subscribed one: the answer is dropped
StaleResponse ==
    \E k \in inflight :
        /\ k # subscribedArgs
        /\ inflight' = inflight \ {k}
        /\ UNCHANGED <<subscribedArgs, status, data, currentData, polling, hookVars,
                       staleBefore, now, pollVars, ghostVars>>

Next ==
    \/ SetAmountSpecified
    \/ SetOtherCurrency
    \/ DebounceElapsed
    \/ SetWindowVisible
    \/ SetAutoRouterSupported
    \/ BlockAdvance
    \/ Poll
    \/ FetchFulfilled
    \/ FetchRejected
    \/ StaleResponse

Spec == Init /\ [][Next]_vars

-----------------------------------------------------------------------------
(* Actions of SpecTimed: the clock is explicit and the debounce timer fires *)
(* at its deadline.  The ghosts record what the debounce claims speak of.   *)

ScenarioTimes == <<0, 50, 120, 260>>

scnAfterChangeAt(t) ==
    IF scn >= 0 /\ scn < Len(ScenarioTimes) /\ t = ScenarioTimes[scn + 1]
    THEN scn + 1
    ELSE -1

InitTimed ==
    /\ Init
    /\ network = 1
    /\ tradeType = "EXACT_INPUT"
    /\ autoRouterSupported
    /\ isWindowVisible
    /\ amountSpecified \in TimedAmounts
    /\ otherCurrency \in TimedCurrencies

TimedSetAmountSpecified ==
    \E a \in TimedAmounts :
        /\ ChangeInput(a, otherCurrency)
        /\ lastInputAt' = now
        /\ scn' = scnAfterChangeAt(now)
        /\ UNCHANGED <<now, pollVars, propagated>>

TimedSetOtherCurrency ==
    \E c \in TimedCurrencies :
        /\ ChangeInput(amountSpecified, c)
        /\ lastInputAt' = now
        /\ scn' = scnAfterChangeAt(now)
        /\ UNCHANGED <<now, pollVars, propagated>>

DebounceTimeout ==
    /\ now = timer
    /\ DebounceFire
    /\ lastInputAt' = -1
    /\ propagated' = propagated + 1
    /\ UNCHANGED <<now, pollVars, scn>>

\* Time passes, but not past the deadline of a pending timer
Tick ==
    /\ now + TickMs <= MaxTime
    /\ timer = NoTimer \/ now < timer
    /\ now' = now + TickMs
    /\ UNCHANGED <<hookVars, staleBefore, queryVars, pollVars, ghostVars>>

NextTimed ==
    \/ TimedSetAmountSpecified
    \/ TimedSetOtherCurrency
    \/ DebounceTimeout
    \/ Tick

SpecTimed == InitTimed /\ [][NextTimed]_vars

-----------------------------------------------------------------------------
(* Actions of SpecPolling: the polling timer of the subscribed argument is  *)
(* explicit.  The clock counts the seconds since the loop started or last  *)
(* came due, and the timer fires when the interval has elapsed.             *)

\* The arguments an exact-input trade of A for B can subscribe to
PollingArgs == [tokenIn : {"A"}, tokenOut : {"B"}, amount : {1, 2},
                tradeType : {"EXACT_INPUT"}]

InitPolling ==
    /\ Init
    /\ network = 1
    /\ tradeType = "EXACT_INPUT"
    /\ autoRouterSupported
    /\ isWindowVisible
    /\ otherCurrency = "B"

\* A changed argument starts a polling loop of its own, from zero
RestartPolling ==
    IF subscribedArgs' # subscribedArgs
    THEN pollAge' = 0 /\ prevStatus' = "uninitialized"
    ELSE UNCHANGED pollVars

PollingDebounceElapsed ==
    DebounceFire /\ RestartPolling /\ UNCHANGED <<now, ghostVars>>

PollingSetWindowVisible ==
    /\ ~throws
    /\ isWindowVisible' = ~isWindowVisible
    /\ AfterRender(tradeType, autoRouterSupported, isWindowVisible', debounced)
    /\ RestartPolling
    /\ UNCHANGED <<network, tradeType, amountSpecified, otherCurrency, debounced, timer,
                   autoRouterSupported, staleBefore, now, ghostVars>>

\* Time passes, but not past the moment the polling timer is due
PollTick ==
    /\ PollingInterval > 0
    /\ polling # {}
    /\ pollAge < PollingInterval
    /\ pollAge' = pollAge + PollTickS
    /\ UNCHANGED <<hookVars, staleBefore, queryVars, now, prevStatus, ghostVars>>

\* The polling timer fires and is set again: the argument is fetched again
\* unless a request for it is still unanswered
PollDue ==
    /\ PollingInterval > 0
    /\ pollAge = PollingInterval
    /\ pollAge' = 0
    /\ \E k \in polling :
          IF (k = subscribedArgs /\ status = "pending") \/ (k # subscribedArgs /\ k \in inflight)
          THEN UNCHANGED <<hookVars, staleBefore, queryVars, prevStatus>>
          ELSE PollKey(k) /\ prevStatus' = status
    /\ UNCHANGED <<now, ghostVars>>

NextPolling ==
    \/ SetAmountSpecified
    \/ PollingDebounceElapsed
    \/ PollingSetWindowVisible
    \/ PollTick
    \/ PollDue
    \/ FetchFulfilled
    \/ FetchRejected
    \/ StaleResponse

\* The timers of the polling loop are served by the event loop: a timer
\* that is due fires
SpecPolling ==
    InitPolling /\ [][NextPolling]_vars /\ WF_vars(PollTick) /\ WF_vars(PollDue)

-----------------------------------------------------------------------------
(* SpecSignals: the render as a function of its arguments and of whatever   *)
(* the hooks it calls return.  From the state after mounting, each action  *)
(* replaces one group of signals by any other value, so that every          *)
(* combination of arguments, gate signals, oracle verdict, fetch status     *)
(* and results is reached.                                                  *)

Statuses == {"uninitialized", "pending", "fulfilled", "rejected"}

SignalArgs == {[tokenIn |-> "A", tokenOut |-> "B", amount |-> 1, tradeType |-> "EXACT_INPUT"],
               [tokenIn |-> "B", tokenOut |-> "A", amount |-> 1, tradeType |-> "EXACT_OUTPUT"]}

SignalData == {NoData} \cup [originalArgs : SignalArgs, blockNumber : 1..MaxBlock,
                             route : RouteKinds, quote : QuoteAmounts]

SignalInputs ==
    \E a \in Amounts, c \in OptCurrencies :
        /\ amountSpecified' = a
        /\ otherCurrency' = c
        /\ debounced' = <<a, c>>
        /\ subscribedArgs' = InitialArg(tradeType, autoRouterSupported, isWindowVisible, debounced')
        /\ UNCHANGED <<network, tradeType, timer, autoRouterSupported, isWindowVisible, staleBefore,
                       status, data, currentData, inflight, polling, now, pollVars,
                       ghostVars>>

SignalGate ==
    \E s \in BOOLEAN, v \in BOOLEAN :
        /\ autoRouterSupported' = s
        /\ isWindowVisible' = v
        /\ subscribedArgs' = InitialArg(tradeType, s, v, debounced)
        /\ UNCHANGED <<network, tradeType, amountSpecified, otherCurrency, debounced, timer,
                       staleBefore, status, data, currentData, inflight, polling, now, pollVars,
                       ghostVars>>

SignalBlock ==
    \E b \in 1..(MaxBlock + 1) :
        /\ staleBefore' = b
        /\ UNCHANGED <<hookVars, queryVars, now, pollVars, ghostVars>>

SignalQuery ==
    \E s \in Statuses, d \in SignalData :
        /\ status' = s
        /\ data' = d
        /\ currentData' \in {NoData, d}
        /\ UNCHANGED <<hookVars, staleBefore, subscribedArgs, inflight, polling, now,
                       pollVars, ghostVars>>

NextSignals ==
    \/ SignalInputs
    \/ SignalGate
    \/ SignalBlock
    \/ SignalQuery

SpecSignals == Init /\ [][NextSignals]_vars

-----------------------------------------------------------------------------
(* Claims *)

\* C1 as stated: whenever currencyIn or currencyOut is absent, whatever the
\* other signals are, the hook returns state INVALID with no trade.
C1_AbsentCurrencyAlwaysInvalid ==
    (currencyIn = undefined \/ currencyOut = undefined)
        => useRouterTrade = INVALID_TRADE

\* C1 amended: whenever currencyIn or currencyOut is absent and the hook
\* does not throw the unsupported-chain error (currencyIn is absent or on a
\* supported chain), it returns state INVALID with no trade, whatever the
\* fetch status, the results, the oracle and the gate are.
C1_AbsentCurrencyInvalidUnlessThrown ==
    ((currencyIn = undefined \/ currencyOut = undefined) /\ ~throws)
        => useRouterTrade = INVALID_TRADE

\* C1 witness: a currency is absent while a fetch is in flight and a valid
\* quote is at hand, and the hook returns INVALID
C1_Witness ==
    /\ currencyOut = undefined
    /\ currencyIn # undefined
    /\ status = "pending"
    /\ quoteResult # NoData
    /\ useRouterTrade = INVALID_TRADE

LOADING_TRADE == [error |-> FALSE, state |-> "LOADING", trade |-> NoTrade]
NO_ROUTE_TRADE == [error |-> FALSE, state |-> "NO_ROUTE_FOUND", trade |-> NoTrade]

\* C2 as stated: when the subscribed argument changes from one whose trade
\* is VALID to another whose fetch is pending, the state becomes SYNCING
\* with a trade still built from the previous quote, and it stays SYNCING
\* for as long as that fetch stays pending.
C2_KeyChangeShowsSyncing ==
    [][ /\ ( /\ useRouterTrade.state = "VALID"
             /\ subscribedArgs' # subscribedArgs
             /\ subscribedArgs' # skipToken
             /\ status' = "pending" )
           => ( /\ useRouterTrade'.state = "SYNCING"
                /\ useRouterTrade'.trade # NoTrade
                /\ useRouterTrade'.trade.quoteArgs = subscribedArgs )
        /\ ( /\ useRouterTrade.state = "SYNCING"
             /\ subscribedArgs' = subscribedArgs
             /\ status = "pending"
             /\ status' = "pending" )
           => useRouterTrade'.state = "SYNCING" ]_vars

\* C3: while the fetch of the subscribed argument is in flight and no
\* result has been fetched before, the hook returns LOADING with no trade.
C3_FirstFetchIsLoading ==
    (subscribedArgs # skipToken /\ status = "pending" /\ data = NoData)
        => useRouterTrade = LOADING_TRADE

\* C3 witness: after the debounce buffer has emitted, a first fetch is in
\* flight with nothing fetched before, and the hook returns LOADING
C3_Witness ==
    /\ subscribedArgs # skipToken
    /\ status = "pending"
    /\ data = NoData
    /\ timer = NoTimer
    /\ useRouterTrade = LOADING_TRADE

\* C4: whenever the query argument is "no request", the hook returns
\* NO_ROUTE_FOUND or INVALID (never LOADING, VALID or SYNCING), also while a
\* result of an earlier argument is retained.
C4_NoRequestNeverLoadingOrValid ==
    (~throws /\ queryArgs = NoArgs)
        => useRouterTrade.state \in {"NO_ROUTE_FOUND", "INVALID"}

\* C4 witness: no request, both currencies present, and a retained quote
\* that is fresh and has a usable route: the hook returns NO_ROUTE_FOUND
C4_Witness ==
    /\ ~throws
    /\ queryArgs = NoArgs
    /\ currencyIn # undefined
    /\ currencyOut # undefined
    /\ quoteResult # NoData
    /\ route = "ok"
    /\ useRouterTrade = NO_ROUTE_TRADE

\* C5 as stated: once the fetch of the subscribed argument has succeeded,
\* whenever the oracle rejects the block of that result the filtered quote
\* is absent and the hook returns NO_ROUTE_FOUND with no trade.
C5_StaleBlockIsNoRoute ==
    ( /\ subscribedArgs # skipToken
      /\ currentData # NoData
      /\ currentData = data
      /\ data.originalArgs = subscribedArgs
      /\ ~useIsValidBlock(data.blockNumber, staleBefore) )
        => (quoteResult = NoData /\ useRouterTrade = NO_ROUTE_TRADE)

\* C6: for both trade types, whenever currencyIn (the currency whose chain
\* the hook resolves) is on a chain outside AUTO_ROUTER_SUPPORTED_CHAINS,
\* the hook throws instead of returning a state, it holds no subscription,
\* and no request for an unsupported chain is outstanding.
C6_UnsupportedChainThrows ==
    /\ (currencyIn # undefined /\ network \notin AUTO_ROUTER_SUPPORTED_CHAINS)
           => (useRouterTrade = Thrown /\ subscribedArgs = skipToken)
    /\ (network \notin AUTO_ROUTER_SUPPORTED_CHAINS => inflight = {})

\* C6 witness: an exact-output trade on the unsupported chain throws once
\* the debounce buffer has emitted the other currency, which is currencyIn
C6_Witness ==
    /\ tradeType = "EXACT_OUTPUT"
    /\ network \notin AUTO_ROUTER_SUPPORTED_CHAINS
    /\ timer = NoTimer
    /\ currencyIn # undefined
    /\ amountPassed # NoAmount
    /\ useRouterTrade = Thrown

\* C7: whenever the window is not visible or the auto router is not
\* supported, the amount passed on is absent, the query argument is "no
\* request", nothing is subscribed or being fetched, and no step that
\* leaves the gate closed issues a request.
C7_ClosedGateIssuesNothing ==
    /\ [](~(autoRouterSupported /\ isWindowVisible)
            => /\ amountPassed = NoAmount
               /\ (~throws => queryArgs = NoArgs)
               /\ subscribedArgs = skipToken
               /\ status = "uninitialized")
    /\ [][~(autoRouterSupported' /\ isWindowVisible')
            => inflight' \subseteq inflight]_vars

\* C7 witness: the window is hidden after a quote was fetched for an
\* amount that is still specified; nothing is subscribed any more
C7_Witness ==
    /\ autoRouterSupported
    /\ ~isWindowVisible
    /\ debounced[1] # NoAmount
    /\ debounced[1].raw # 0
    /\ data # NoData
    /\ subscribedArgs = skipToken
    /\ amountPassed = NoAmount

Unrequestable ==
    \/ currencyIn = undefined
    \/ currencyOut = undefined
    \/ amountPassed = NoAmount
    \/ currencyIn = currencyOut
    \/ amountPassed.raw = 0

\* C10: whenever tokenIn, tokenOut or the amount is missing, or tokenIn and
\* tokenOut are the same currency, or the amount is zero, the query argument
\* is "no request", nothing is subscribed or being fetched, and no step
\* that ends in such a state issues a request.
C10_NoRequestWithoutArguments ==
    /\ []((~throws /\ Unrequestable)
            => /\ queryArgs = NoArgs
               /\ subscribedArgs = skipToken
               /\ status = "uninitialized")
    /\ [][(~throws' /\ Unrequestable') => inflight' \subseteq inflight]_vars

\* C10 witness: a zero amount follows a fetched quote while both currencies
\* are present and differ: nothing is subscribed
C10_Witness ==
    /\ ~throws
    /\ amountPassed # NoAmount
    /\ amountPassed.raw = 0
    /\ currencyIn # undefined
    /\ currencyOut # undefined
    /\ currencyIn # currencyOut
    /\ data # NoData
    /\ subscribedArgs = skipToken

\* C11: with EXACT_INPUT currencyIn / tokenIn is the currency of the amount
\* passed on and currencyOut / tokenOut is the other currency, with
\* EXACT_OUTPUT the reverse; and wherever the resolver computes the quoted
\* other amount, it is the quote's raw amount in the other currency, never
\* in the currency of the specified side.
C11_TokenOrderFollowsTradeType ==
    ~throws =>
        /\ tradeType = "EXACT_INPUT"
              => (currencyIn = amountPassed.currency /\ currencyOut = debounced[2])
        /\ tradeType = "EXACT_OUTPUT"
              => (currencyIn = debounced[2] /\ currencyOut = amountPassed.currency)
        /\ queryArgs # NoArgs
              => /\ queryArgs.tradeType = tradeType
                 /\ tradeType = "EXACT_INPUT"
                       => /\ queryArgs.tokenIn = debounced[1].currency
                          /\ queryArgs.tokenOut = debounced[2]
                 /\ tradeType = "EXACT_OUTPUT"
                       => /\ queryArgs.tokenIn = debounced[2]
                          /\ queryArgs.tokenOut = debounced[1].currency
        /\ (currencyIn # undefined /\ currencyOut # undefined /\ quoteResult # NoData)
              => /\ otherAmount.currency = debounced[2]
                 /\ otherAmount.raw = quoteResult.quote
                 /\ (queryArgs # NoArgs => otherAmount.currency # debounced[1].currency)

\* C11 witness: an exact-output trade of an amount of A against B resolves
\* to VALID with tokenIn B, tokenOut A and the other amount quoted in B
C11_Witness ==
    /\ tradeType = "EXACT_OUTPUT"
    /\ ~throws
    /\ queryArgs # NoArgs
    /\ queryArgs.tokenIn = "B"
    /\ queryArgs.tokenOut = "A"
    /\ currencyIn = "B"
    /\ currencyOut = "A"
    /\ otherAmount = [currency |-> "B", raw |-> 95]
    /\ useRouterTrade.state = "VALID"

\* C12: whenever the hook returns VALID, the result shown is the latest
\* successful one (currentData = data), it is the result of the query
\* argument in force, and the trade is built from it; and for the inputs of
\* every reachable state, a resolution that returns a trade while the two
\* results differ returns SYNCING, never VALID.
C12_ValidIsQuoteOfActiveArgs ==
    /\ useRouterTrade.state = "VALID"
          => /\ currentData = data
             /\ data # NoData
             /\ queryArgs # NoArgs
             /\ data.originalArgs = queryArgs
             /\ quoteResult = data
             /\ useRouterTrade.trade.quoteArgs = queryArgs
    /\ (useRouterTrade.trade # NoTrade /\ currentData # data)
          => useRouterTrade.state = "SYNCING"
    /\ \A fetching \in BOOLEAN, errored \in BOOLEAN, syncing \in BOOLEAN :
          LET r == Resolve(currencyIn, currencyOut, fetching, errored, quoteResult,
                           route, queryArgs, syncing, tradeType)
          IN  r.trade # NoTrade
                => r.state = IF syncing THEN "SYNCING" ELSE "VALID"

\* C12 witness: an exact-output quote for the amount 2, which the debounce
\* buffer has emitted, is shown as VALID
C12_Witness ==
    /\ useRouterTrade.state = "VALID"
    /\ tradeType = "EXACT_OUTPUT"
    /\ timer = NoTimer
    /\ debounced[1].raw = 2
    /\ currentData = data
    /\ data.originalArgs = queryArgs
    /\ useRouterTrade.trade.quoteArgs = queryArgs

\* C13 as stated: while a VALID trade of the subscribed argument is shown,
\* a step that refetches that same argument (the 15 s poll or a refetch on
\* focus) and changes nothing else leaves the state VALID and the trade in
\* place, although a fetch is now in flight.
C13_RefetchKeepsValid ==
    [][ ( /\ useRouterTrade.state = "VALID"
          /\ subscribedArgs' = subscribedArgs
          /\ status # "pending"
          /\ status' = "pending"
          /\ UNCHANGED <<hookVars, staleBefore, data, currentData>> )
        => ( /\ useRouterTrade'.state = "VALID"
             /\ useRouterTrade'.trade = useRouterTrade.trade ) ]_vars

\* C14: whenever both currencies are present, no fetch is in flight and the
\* latest fetch of the subscribed argument has failed, the hook returns
\* NO_ROUTE_FOUND with no trade, whatever quote is retained, and it does
\* not throw.
C14_FetchErrorIsNoRoute ==
    /\ (currencyIn # undefined /\ currencyOut # undefined /\ status = "rejected")
          => useRouterTrade = NO_ROUTE_TRADE
    /\ status = "rejected" => ~useRouterTrade.error

\* C14 witness: a refetch has failed while the quote fetched before, fresh
\* and with a usable route, is still retained: NO_ROUTE_FOUND
C14_Witness ==
    /\ status = "rejected"
    /\ currencyIn # undefined
    /\ currencyOut # undefined
    /\ data # NoData
    /\ quoteResult = data
    /\ route = "ok"
    /\ subscribedArgs \notin inflight
    /\ useRouterTrade = NO_ROUTE_TRADE

\* Rules 1 to 4 of the resolver (lines 91-118) do not apply
ReachesTransform ==
    /\ ~throws
    /\ currencyIn # undefined
    /\ currencyOut # undefined
    /\ ~isFetching
    /\ ~isError
    /\ otherAmount # NoAmount
    /\ route # undefined
    /\ route # "empty"
    /\ queryArgs # NoArgs

\* C15: whenever rules 1 to 4 do not apply and the transform fails, the
\* hook returns INVALID with no trade and does not throw; and whenever it
\* returns VALID or SYNCING, rules 1 to 4 did not apply, the transform
\* succeeded and the trade returned is the one it built.
C15_TransformFailureIsInvalid ==
    /\ (ReachesTransform /\ trade = Failed) => useRouterTrade = INVALID_TRADE
    /\ useRouterTrade.state \in {"VALID", "SYNCING"}
          => /\ ReachesTransform
             /\ trade # Failed
             /\ useRouterTrade.trade = trade

\* C15 witness: a fresh quote of both currencies with a malformed route is
\* at hand while the two results differ: the transform fails, INVALID
C15_Witness ==
    /\ ReachesTransform
    /\ route = "malformed"
    /\ trade = Failed
    /\ isSyncing
    /\ useRouterTrade = INVALID_TRADE

\* C16: at every instant at most one polling loop runs, and it is the loop
\* of the subscribed argument (none for "no request"); every request issued
\* is for the argument subscribed after the step, so none is issued for an
\* argument that has been replaced; and a step that changes the argument to
\* another one leaves the new argument's request in flight and the old
\* argument without a loop.
C16_OnePollingLoop ==
    /\ [](/\ Cardinality(polling) <= 1
          /\ polling = IF subscribedArgs = skipToken THEN {} ELSE {subscribedArgs})
    /\ [][\A k \in inflight' \ inflight : k = subscribedArgs']_vars
    /\ [][(subscribedArgs' # subscribedArgs /\ subscribedArgs' # skipToken)
            => /\ subscribedArgs' \in inflight'
               /\ status' = "pending"
               /\ subscribedArgs \notin polling']_vars

\* C16 witness: the argument has changed from the one whose quote is still
\* retained to another one, whose request is in flight and whose loop is
\* the only one running
C16_Witness ==
    /\ data # NoData
    /\ subscribedArgs # skipToken
    /\ data.originalArgs # subscribedArgs
    /\ subscribedArgs \in inflight
    /\ polling = {subscribedArgs}
    /\ data.originalArgs \notin polling

\* C17: for every argument K, once an attempt for the subscribed K has
\* failed (or succeeded), either the argument changes (a new input is
\* debounced or the gate closes) or a request for K is issued again; a
\* polling timer that comes due with no request unanswered issues one, also
\* after an error; and the loop of a subscribed argument is never stopped.
C17_PollingSurvivesError ==
    /\ \A K \in PollingArgs :
          /\ (subscribedArgs = K /\ status = "rejected")
                ~> (subscribedArgs # K
                      \/ (status = "pending" /\ prevStatus = "rejected" /\ K \in inflight))
          /\ (subscribedArgs = K /\ status = "fulfilled")
                ~> (subscribedArgs # K \/ (status = "pending" /\ K \in inflight))
    /\ [][(/\ pollAge = PollingInterval
           /\ pollAge' = 0
           /\ subscribedArgs' = subscribedArgs
           /\ subscribedArgs # skipToken
           /\ status # "pending")
            => (status' = "pending" /\ subscribedArgs \in inflight')]_vars
    /\ [](subscribedArgs # skipToken => subscribedArgs \in polling)

\* C17 witness: the request issued by the poll that followed a failed
\* attempt has succeeded, and the state is VALID
C17_Witness ==
    /\ prevStatus = "rejected"
    /\ status = "fulfilled"
    /\ subscribedArgs \in PollingArgs
    /\ useRouterTrade.state = "VALID"

\* C18 as stated: a change of otherCurrency is not debounced: in the state
\* that follows it, before any quiet window has elapsed, the currency on
\* the other side of the pair (currencyOut for an exact-input trade) is the
\* new currency, and so is that token of the query argument, if there is
\* one.
C18_CurrencyChangeNotDebounced ==
    [][ (otherCurrency' # otherCurrency /\ ~throws')
        => /\ (IF tradeType = "EXACT_INPUT" THEN currencyOut' ELSE currencyIn')
                  = otherCurrency'
           /\ queryArgs' # NoArgs
                 => (IF tradeType = "EXACT_INPUT"
                     THEN queryArgs'.tokenOut
                     ELSE queryArgs'.tokenIn) = otherCurrency' ]_vars

\* The values of TradeState
TradeStates == {"INVALID", "LOADING", "NO_ROUTE_FOUND", "SYNCING", "VALID"}

\* C19: whenever the hook returns a result, its state is one of the five
\* trade states, and a trade is present exactly when the state is VALID or
\* SYNCING: with INVALID, LOADING and NO_ROUTE_FOUND the trade is absent.
C19_TradeIffValidOrSyncing ==
    ~throws =>
        /\ useRouterTrade.state \in TradeStates
        /\ useRouterTrade.trade # NoTrade
              <=> useRouterTrade.state \in {"VALID", "SYNCING"}

\* C19 witness: a quote at hand differs from the result of the argument in
\* force and nothing is in flight: SYNCING, with a trade
C19_Witness ==
    /\ ~throws
    /\ useRouterTrade.state = "SYNCING"
    /\ useRouterTrade.trade # NoTrade
    /\ useRouterTrade.trade.outputCurrency = currencyOut

\* C20: for both trade types, whenever the window is not visible or the
\* auto router is not supported and the chain error is not thrown, the hook
\* returns INVALID with no trade; and a step in which the window of a VALID
\* trade becomes hidden ends in INVALID with no trade.
C20_ClosedGateIsInvalid ==
    /\ []((~(autoRouterSupported /\ isWindowVisible) /\ ~throws)
            => useRouterTrade = INVALID_TRADE)
    /\ [][(useRouterTrade.state = "VALID" /\ ~isWindowVisible')
            => useRouterTrade' = INVALID_TRADE]_vars

\* C20 witness: the window is hidden while the fresh quote of an
\* exact-output trade, with a usable route, is still retained and both
\* debounced inputs are present: INVALID
C20_Witness ==
    /\ ~isWindowVisible
    /\ autoRouterSupported
    /\ tradeType = "EXACT_OUTPUT"
    /\ debounced[1] # NoAmount
    /\ debounced[1].raw # 0
    /\ debounced[2] = "B"
    /\ quoteResult # NoData
    /\ quoteResult.route = "ok"
    /\ useRouterTrade = INVALID_TRADE

====
